---- MODULE Spec2Model ----
(***************************************************************************)
(* A model of the web-terminal server (src/bin/server/src/main.rs): one    *)
(* child process whose stdout lines and whose viewers' inputs are          *)
(* published through a tokio broadcast channel (message_tx) and recorded   *)
(* in a bounded history (message_buf, behind a tokio RwLock); one          *)
(* handle_connection per viewer with its two spawned relay tasks; the      *)
(* stdout reader task and the stdin writer task of ProgramHandler::new.    *)
(*                                                                         *)
(* A step is the code a task runs from one await point to the next.  The   *)
(* RwLock guards of subscribe, broadcast_input and the stdout reader are   *)
(* acquired and dropped without an await in between, so each guarded       *)
(* section lies inside one step and the lock is free between steps; what   *)
(* runs outside the lock (the broadcast send before write().await) is a    *)
(* step of its own.  SpecLock is the same server with the grant of each    *)
(* guard as a step of its own, so that the states in which a task holds a  *)
(* guard exist; guard records the holders.  A message is the String the    *)
(* code handles (text, a sequence of characters) together with an id that  *)
(* only names the publish it belongs to; the code never reads the id.      *)
(***************************************************************************)
EXTENDS Naturals, Sequences, FiniteSets

VARIABLES
    cap,          \* capacity of message_buf and of the broadcast channel
    message_buf,  \* ProgramHandler.message_buf: the history, oldest first
    sent,         \* the broadcast channel: every value sent, in send order
    rxLive,       \* viewers whose broadcast::Receiver exists
    rxNext,       \* Receiver.next of each viewer: values of sent consumed
    subPos,       \* length of sent when the viewer's Receiver was created
    connOpen,     \* the viewer's WebSocket is open
    hc,           \* position of handle_connection
    snapshot,     \* initial_messages
    replayed,     \* initial_messages already sent to the viewer
    st,           \* position of send_task
    stMsg,        \* msg held by send_task between recv and send
    rt,           \* position of recv_task
    rtMsg,        \* input held by recv_task
    wsOut,        \* transport messages the viewer has been sent, in order
    readerPc,     \* position of the stdout reader task
    readerMsg,    \* trimmed line held by the stdout reader task
    nextId,       \* id of the next publish
    inputs,       \* the text frames read from viewers, each with rxLive then
    faults,       \* disconnects and stream failures so far
    stdinQ,       \* the unbounded mpsc queue stdin_tx -> stdin_rx
    writerPc,     \* position of the stdin writer task
    stdinStream,  \* chunks written to the process's stdin, in order
    guard         \* the RwLock guards of message_buf that tasks hold

vars == <<cap, message_buf, sent, rxLive, rxNext, subPos,
          connOpen, hc, snapshot, replayed, st, stMsg, rt, rtMsg, wsOut,
          readerPc, readerMsg, nextId, inputs, faults, stdinQ, writerPc,
          stdinStream, guard>>

hubVars == <<message_buf, sent, rxLive, rxNext, subPos>>
connVars == <<connOpen, hc, snapshot, replayed, wsOut>>
sendTaskVars == <<st, stMsg>>
recvTaskVars == <<rt, rtMsg>>
readerVars == <<readerPc, readerMsg>>
writerVars == <<stdinQ, writerPc, stdinStream>>

----------------------------------------------------------------------------
(* Bounds of the model and constants of the program.                       *)

\* const MAX_MESSAGES: usize = 256
MAX_MESSAGES == 256

\* The capacity the concurrent specification runs with, in place of 256.
ModelCap == 2

\* The capacity of the specification in which a subscriber overflows early.
SmallCap == 1

\* Publishes (stdout lines plus viewer inputs) in the concurrent specification.
MaxPublish == 3

\* Disconnects, non-text frames and process stream failures in one behaviour.
MaxFaults == 1

\* Publishes in the sequential scenario, which runs with MAX_MESSAGES itself.
SeqPublish == 300

Viewers == {"v1", "v2"}

NL == "\n"

\* Lines as read_line returns them: the text up to and including the terminator.
Lines == { <<" ", "o", "k", " ", NL>> }

\* Text frames a viewer may submit.
Inputs == { <<"h", "i">> }

NoMsg == [id |-> 0, text |-> <<>>]

----------------------------------------------------------------------------
(* Pure helpers.                                                           *)

Range(s) == { s[i] : i \in 1..Len(s) }

Ids(s) == { s[i].id : i \in 1..Len(s) }

Count(s, x) == Cardinality({ i \in 1..Len(s) : s[i] = x })

CountId(s, n) == Cardinality({ i \in 1..Len(s) : s[i].id = n })

\* char::is_whitespace, on the characters the model uses
IsWhite(c) == c \in {" ", NL, "\t", "\r"}

RECURSIVE TrimStart(_)
TrimStart(s) ==
    IF s # <<>> /\ IsWhite(Head(s)) THEN TrimStart(Tail(s)) ELSE s

RECURSIVE TrimEnd(_)
TrimEnd(s) ==
    IF s # <<>> /\ IsWhite(s[Len(s)]) THEN TrimEnd(SubSeq(s, 1, Len(s) - 1)) ELSE s

\* str::trim: leading and trailing whitespace removed
Trim(s) == TrimEnd(TrimStart(s))

\* PushHistory evicting one publish too late: > in place of >=
PushHistoryOffByOne(buf, m, c) ==
    IF Len(buf) > c THEN Append(Tail(buf), m) ELSE Append(buf, m)

\* PushHistory evicting the newest entry: pop_back in place of pop_front
PushHistoryEvictNewest(buf, m, c) ==
    IF Len(buf) >= c THEN Append(SubSeq(buf, 1, Len(buf) - 1), m) ELSE Append(buf, m)

\* if message_buf.len() >= MAX_MESSAGES { pop_front() }; push_back(m)
PushHistory(buf, m, c) ==
    IF Len(buf) >= c THEN Append(Tail(buf), m) ELSE Append(buf, m)

\* SendOk succeeding with no Receiver
SendOkAlways(rx) == TRUE

\* broadcast::Sender::send succeeds iff some Receiver exists
SendOk(rx) == rx # {}

\* BroadcastSend storing the value twice
BroadcastSendTwice(log, rx, m) ==
    IF SendOk(rx) THEN Append(Append(log, m), m) ELSE log

\* BroadcastSend putting the value ahead of those already sent
BroadcastSendFront(log, rx, m) ==
    IF SendOk(rx) THEN <<m>> \o log ELSE log

\* broadcast::Sender::send: the value is stored only when the send succeeds
BroadcastSend(log, rx, m) ==
    IF SendOk(rx) THEN Append(log, m) ELSE log

\* Lagged never reporting the overflow: the Receiver reads on
LaggedNever(v) == FALSE

\* Lagged reporting the overflow one send too late
LaggedLate(v) == Len(sent) - rxNext[v] > cap + 1

\* broadcast::Receiver::recv returns Err(Lagged) when the slot it wants was
\* overwritten: more than the capacity was sent since it last read
Lagged(v) == Len(sent) - rxNext[v] > cap

\* recv has a value to return
RecvReady(v) == rxNext[v] < Len(sent) /\ ~Lagged(v)

\* RecvValue reading the newest slot in place of the Receiver's next one
RecvValueNewest(v) == sent[Len(sent)]

\* the value recv returns: the oldest one the Receiver has not consumed
RecvValue(v) == sent[rxNext[v] + 1]

\* DropRx closing the channel for every Receiver
DropRxAll(rx, v) == {}

\* broadcast::channel(MAX_MESSAGES) keeps the last cap values sent, in cap
\* slots shared by all Receivers: the position in sent of the oldest one kept
RingFirst == IF Len(sent) > cap THEN Len(sent) - cap + 1 ELSE 1

\* the positions of the values the channel keeps that v has not read
Retained(v) == { i \in RingFirst..Len(sent) : i > rxNext[v] }

\* dropping a Receiver
DropRx(rx, v) == rx \ {v}

\* SnapshotOf returning no history
SnapshotEmpty(buf) == <<>>

\* buf.clone().into(): the VecDeque copied into a Vec, front to back
SnapshotOf(buf) == buf

----------------------------------------------------------------------------
(* Initial state: ProgramHandler::new has returned, no viewer is attached. *)

InitWith(c) ==
    /\ cap = c
    /\ message_buf = <<>>
    /\ sent = <<>>
    /\ rxLive = {}
    /\ rxNext = [v \in Viewers |-> 0]
    /\ subPos = [v \in Viewers |-> 0]
    /\ connOpen = [v \in Viewers |-> FALSE]
    /\ hc = [v \in Viewers |-> "idle"]
    /\ snapshot = [v \in Viewers |-> <<>>]
    /\ replayed = [v \in Viewers |-> 0]
    /\ st = [v \in Viewers |-> "none"]
    /\ stMsg = [v \in Viewers |-> NoMsg]
    /\ rt = [v \in Viewers |-> "none"]
    /\ rtMsg = [v \in Viewers |-> NoMsg]
    /\ wsOut = [v \in Viewers |-> <<>>]
    /\ readerPc = "read"
    /\ readerMsg = NoMsg
    /\ nextId = 1
    /\ inputs = <<>>
    /\ faults = 0
    /\ stdinQ = <<>>
    /\ writerPc = "recv"
    /\ stdinStream = <<>>
    /\ guard = {}

Init == InitWith(ModelCap)

\* one more disconnect or stream failure, within the bound
Fault ==
    /\ faults < MaxFaults
    /\ faults' = faults + 1

----------------------------------------------------------------------------
(* handle_connection                                                       *)

\* ws_handler: a viewer's socket is upgraded and handle_connection starts,
\* up to program_handler.subscribe().await
Connect(v) ==
    /\ hc[v] = "idle"
    /\ hc' = [hc EXCEPT ![v] = "subscribe"]
    /\ connOpen' = [connOpen EXCEPT ![v] = TRUE]
    /\ UNCHANGED <<cap, guard, hubVars, snapshot, replayed, wsOut, sendTaskVars,
                   recvTaskVars, readerVars, nextId, inputs, faults, writerVars>>

\* subscribe: the read guard is acquired, then
\* (self.message_tx.subscribe(), buf.clone().into()), and the guard is dropped
Subscribe(v) ==
    /\ hc[v] = "subscribe"
    /\ rxLive' = rxLive \cup {v}
    /\ rxNext' = [rxNext EXCEPT ![v] = Len(sent)]
    /\ subPos' = [subPos EXCEPT ![v] = Len(sent)]
    /\ snapshot' = [snapshot EXCEPT ![v] = SnapshotOf(message_buf)]
    /\ hc' = [hc EXCEPT ![v] = "replay"]
    /\ UNCHANGED <<cap, guard, message_buf, sent, connOpen, replayed, wsOut,
                   sendTaskVars, recvTaskVars, readerVars, nextId, inputs, faults,
                   writerVars>>

\* for msg in initial_messages { if ws_sender.send(..).await.is_err() { return } }
ReplaySend(v) ==
    /\ hc[v] = "replay"
    /\ replayed[v] < Len(snapshot[v])
    /\ \/ /\ connOpen[v]
          /\ wsOut' = [wsOut EXCEPT ![v] = Append(@, snapshot[v][replayed[v] + 1])]
          /\ replayed' = [replayed EXCEPT ![v] = @ + 1]
          /\ UNCHANGED <<hc, rxLive>>
       \/ /\ ~connOpen[v]
          /\ hc' = [hc EXCEPT ![v] = "returned"]
          /\ rxLive' = DropRx(rxLive, v)
          /\ UNCHANGED <<wsOut, replayed>>
    /\ UNCHANGED <<cap, guard, message_buf, sent, rxNext, subPos, connOpen, snapshot,
                   sendTaskVars, recvTaskVars, readerVars, nextId, inputs, faults,
                   writerVars>>

\* the tasks spawned before the snapshot has been sent
ReplayDoneEarly(v) == TRUE

\* the for loop over initial_messages has run to its end
ReplayDone(v) == replayed[v] = Len(snapshot[v])

\* let send_task = tokio::spawn(..); let recv_task = tokio::spawn(..)
SpawnTasks(v) ==
    /\ hc[v] = "replay"
    /\ ReplayDone(v)
    /\ hc' = [hc EXCEPT ![v] = "select"]
    /\ st' = [st EXCEPT ![v] = "recv"]
    /\ rt' = [rt EXCEPT ![v] = "next"]
    /\ UNCHANGED <<cap, guard, hubVars, connOpen, snapshot, replayed, wsOut, stMsg,
                   rtMsg, readerVars, nextId, inputs, faults, writerVars>>

\* a relay task has run to its end
TaskEnded(p) ==
    p \in {"lagged", "send_failed", "ended", "bcast_failed", "stdin_failed"}

\* tokio::select! { _ = send_task => {}, _ = recv_task => {} }: returns when
\* either JoinHandle completes; the other JoinHandle is dropped, which
\* detaches its task and does not abort it
SelectReturn(v) ==
    /\ hc[v] = "select"
    /\ TaskEnded(st[v]) \/ TaskEnded(rt[v])
    /\ hc' = [hc EXCEPT ![v] = "returned"]
    /\ UNCHANGED <<cap, guard, hubVars, connOpen, snapshot, replayed, wsOut,
                   sendTaskVars, recvTaskVars, readerVars, nextId, inputs, faults,
                   writerVars>>

\* the viewer closes its connection (or the transport fails)
ClientClose(v) ==
    /\ connOpen[v]
    /\ Fault
    /\ connOpen' = [connOpen EXCEPT ![v] = FALSE]
    /\ UNCHANGED <<cap, guard, hubVars, hc, snapshot, replayed, wsOut, sendTaskVars,
                   recvTaskVars, readerVars, nextId, inputs, writerVars>>

----------------------------------------------------------------------------
(* send_task: while let Ok(msg) = program_rx.recv().await { ws send }      *)

\* program_rx.recv().await: the next value, or Err(Lagged) which ends the
\* loop and drops the Receiver
SendTaskRecv(v) ==
    /\ st[v] = "recv"
    /\ \/ /\ Lagged(v)
          /\ st' = [st EXCEPT ![v] = "lagged"]
          /\ rxLive' = DropRx(rxLive, v)
          /\ UNCHANGED <<stMsg, rxNext>>
       \/ /\ RecvReady(v)
          /\ stMsg' = [stMsg EXCEPT ![v] = RecvValue(v)]
          /\ rxNext' = [rxNext EXCEPT ![v] = @ + 1]
          /\ st' = [st EXCEPT ![v] = "send"]
          /\ UNCHANGED rxLive
    /\ UNCHANGED <<cap, guard, message_buf, sent, subPos, connVars, recvTaskVars,
                   readerVars, nextId, inputs, faults, writerVars>>

\* if ws_sender.send(Message::Text(msg.into())).await.is_err() { break }
SendTaskSend(v) ==
    /\ st[v] = "send"
    /\ \/ /\ connOpen[v]
          /\ wsOut' = [wsOut EXCEPT ![v] = Append(@, stMsg[v])]
          /\ st' = [st EXCEPT ![v] = "recv"]
          /\ UNCHANGED rxLive
       \/ /\ ~connOpen[v]
          /\ st' = [st EXCEPT ![v] = "send_failed"]
          /\ rxLive' = DropRx(rxLive, v)
          /\ UNCHANGED wsOut
    /\ stMsg' = [stMsg EXCEPT ![v] = NoMsg]
    /\ UNCHANGED <<inputs, cap, guard, message_buf, sent, rxNext, subPos, connOpen, hc,
                   snapshot, replayed, recvTaskVars, readerVars, nextId,
                   faults, writerVars>>

----------------------------------------------------------------------------
(* recv_task: while let Some(Ok(Message::Text(input))) = ws_receiver.next() *)

\* ws_receiver.next().await yields a text frame; broadcast_input sends it on
\* the channel (self.message_tx.send(input.clone())?) and reaches
\* self.message_buf.write().await, or returns the send's error, which ends
\* the loop
RecvTaskNext(v, t, limit) ==
    /\ rt[v] = "next"
    /\ connOpen[v]
    /\ nextId <= limit
    /\ nextId' = nextId + 1
    /\ \/ /\ SendOk(rxLive)
          /\ sent' = BroadcastSend(sent, rxLive, [id |-> nextId, text |-> t])
          /\ rtMsg' = [rtMsg EXCEPT ![v] = [id |-> nextId, text |-> t]]
          /\ rt' = [rt EXCEPT ![v] = "store"]
       \/ /\ ~SendOk(rxLive)
          /\ rt' = [rt EXCEPT ![v] = "bcast_failed"]
          /\ UNCHANGED <<sent, rtMsg>>
    /\ inputs' = Append(inputs, [msg |-> [id |-> nextId, text |-> t], live |-> rxLive])
    /\ UNCHANGED <<cap, guard, message_buf, rxLive, rxNext, subPos, connVars,
                   sendTaskVars, readerVars, faults, writerVars>>

\* ws_receiver.next().await yields None (closed), or, on an open connection,
\* an error or a frame that is not Message::Text: the loop ends
RecvTaskEnd(v) ==
    /\ rt[v] = "next"
    /\ IF connOpen[v] THEN Fault ELSE UNCHANGED faults
    /\ rt' = [rt EXCEPT ![v] = "ended"]
    /\ UNCHANGED <<cap, guard, hubVars, connVars, sendTaskVars, rtMsg, readerVars,
                   nextId, inputs, writerVars>>

\* broadcast_input: the write guard is acquired, evict, push_back(input),
\* Ok(()) drops the guard; then stdin_tx.send(input.to_string()), which fails
\* once the writer task has dropped stdin_rx and then ends the loop
RecvTaskStore(v) ==
    /\ rt[v] = "store"
    /\ message_buf' = PushHistory(message_buf, rtMsg[v], cap)
    /\ \/ /\ writerPc = "recv"
          /\ stdinQ' = Append(stdinQ, rtMsg[v])
          /\ rt' = [rt EXCEPT ![v] = "next"]
       \/ /\ writerPc # "recv"
          /\ rt' = [rt EXCEPT ![v] = "stdin_failed"]
          /\ UNCHANGED stdinQ
    /\ rtMsg' = [rtMsg EXCEPT ![v] = NoMsg]
    /\ UNCHANGED <<cap, guard, sent, rxLive, rxNext, subPos, connVars, sendTaskVars,
                   readerVars, nextId, inputs, faults, writerPc, stdinStream>>

----------------------------------------------------------------------------
(* The stdout reader task of ProgramHandler::new                           *)

\* read_line returns Ok(n), n > 0; trimmed = buf.trim().to_string();
\* let _ = message_tx_clone2.send(trimmed.clone()): the result is ignored;
\* then message_buf_clone2.write().await
ReaderRead(line, limit) ==
    /\ readerPc = "read"
    /\ nextId <= limit
    /\ nextId' = nextId + 1
    /\ readerMsg' = [id |-> nextId, text |-> Trim(line)]
    /\ sent' = BroadcastSend(sent, rxLive, [id |-> nextId, text |-> Trim(line)])
    /\ readerPc' = "store"
    /\ UNCHANGED <<cap, guard, message_buf, rxLive, rxNext, subPos, connVars,
                   sendTaskVars, recvTaskVars, inputs, faults, writerVars>>

\* read_line returns Ok(0) (end of stream) or Err: the task ends
ReaderEnd ==
    /\ readerPc = "read"
    /\ Fault
    /\ readerPc' = "done"
    /\ UNCHANGED <<cap, guard, hubVars, connVars, sendTaskVars, recvTaskVars,
                   readerMsg, nextId, inputs, writerVars>>

\* the write guard is acquired, evict, push_back(trimmed); the guard is
\* dropped at the end of the arm
ReaderStore ==
    /\ readerPc = "store"
    /\ message_buf' = PushHistory(message_buf, readerMsg, cap)
    /\ readerPc' = "read"
    /\ readerMsg' = NoMsg
    /\ UNCHANGED <<cap, guard, sent, rxLive, rxNext, subPos, connVars, sendTaskVars,
                   recvTaskVars, nextId, inputs, faults, writerVars>>

----------------------------------------------------------------------------
(* The stdin writer task of ProgramHandler::new                            *)

\* the chunks write_all(msg.as_bytes()) and write_all(b"\n") put on the stream
LineChunks(m) ==
    << [id |-> m.id, bytes |-> m.text], [id |-> m.id, bytes |-> <<NL>>] >>

\* NextLine taking the newest queued line
NextLineNewest(q) == q[Len(q)]

\* stdin_rx.recv(): the oldest line of the queue
NextLine(q) == Head(q)

\* stdin_rx.recv() yields msg; write_all(msg), write_all("\n") and flush all
\* succeed
WriterWrite ==
    /\ writerPc = "recv"
    /\ stdinQ # <<>>
    /\ stdinStream' = stdinStream \o LineChunks(NextLine(stdinQ))
    /\ stdinQ' = Tail(stdinQ)
    /\ UNCHANGED <<cap, guard, hubVars, connVars, sendTaskVars, recvTaskVars,
                   readerVars, nextId, inputs, faults, writerPc>>

\* stdin_rx.recv() yields msg and write_all(msg), write_all("\n") or flush
\* fails after done of the three calls succeeded: the task ends and drops
\* stdin_rx with whatever is still queued
WriterFail(done) ==
    /\ writerPc = "recv"
    /\ stdinQ # <<>>
    /\ Fault
    /\ stdinStream' = stdinStream \o SubSeq(LineChunks(NextLine(stdinQ)), 1, done)
    /\ stdinQ' = <<>>
    /\ writerPc' = "failed"
    /\ UNCHANGED <<cap, guard, hubVars, connVars, sendTaskVars, recvTaskVars,
                   readerVars, nextId, inputs>>

----------------------------------------------------------------------------
(* The server with all its tasks running concurrently.                     *)

ViewerStep(v) ==
    \/ Connect(v)
    \/ Subscribe(v)
    \/ ReplaySend(v)
    \/ SpawnTasks(v)
    \/ SelectReturn(v)
    \/ SendTaskRecv(v)
    \/ SendTaskSend(v)
    \/ RecvTaskEnd(v)
    \/ RecvTaskStore(v)

Next ==
    \/ \E v \in Viewers : ViewerStep(v)
    \/ \E v \in Viewers : ClientClose(v)
    \/ \E v \in Viewers, t \in Inputs : RecvTaskNext(v, t, MaxPublish)
    \/ \E line \in Lines : ReaderRead(line, MaxPublish)
    \/ ReaderEnd
    \/ ReaderStore
    \/ WriterWrite
    \/ \E done \in 0..2 : WriterFail(done)

Spec == Init /\ [][Next]_vars

\* the same server with the smaller capacity: a subscriber overflows after
\* two sends, and publishes follow the overflow within MaxPublish
SpecSmallCap == InitWith(SmallCap) /\ [][Next]_vars

----------------------------------------------------------------------------
(* The sequential scenario: the process prints SeqPublish lines one after  *)
(* the other while no viewer is attached, each publish complete before the *)
(* next starts; then a viewer attaches.  It runs with MAX_MESSAGES itself. *)

SeqViewer == "v1"

SeqLine == CHOOSE line \in Lines : TRUE

SeqInit == InitWith(MAX_MESSAGES)

SeqNext ==
    \/ /\ \A v \in Viewers : hc[v] = "idle"
       /\ ReaderRead(SeqLine, SeqPublish)
    \/ ReaderStore
    \/ /\ readerPc = "read"
       /\ Connect(SeqViewer)
    \/ Subscribe(SeqViewer)
    \/ /\ connOpen[SeqViewer]
       /\ ReplaySend(SeqViewer)
    \/ SpawnTasks(SeqViewer)

SpecSeq == SeqInit /\ [][SeqNext]_vars

----------------------------------------------------------------------------
(* What a viewer observes.                                                 *)

\* subscribe() has returned to handle_connection
Subscribed(v) == hc[v] \in {"replay", "select", "returned"}

\* the live deliveries: what the viewer was sent after the snapshot
Live(v) == SubSeq(wsOut[v], replayed[v] + 1, Len(wsOut[v]))

\* m is in the history snapshot subscribe() returned to v
InSnapshot(v, m) == \E i \in 1..Len(snapshot[v]) : snapshot[v][i] = m

\* m was sent on the channel after v's Receiver was created: v's
\* Subscription carries it as a live delivery
InStream(v, m) == \E i \in (subPos[v] + 1)..Len(sent) : sent[i] = m

\* the messages whose publish is between its broadcast send and its append
InFlight ==
    ({readerMsg} \cup { rtMsg[v] : v \in Viewers }) \ {NoMsg}

\* i comes before j in s, by id
Before(s, a, b) ==
    \E i, j \in 1..Len(s) : i < j /\ s[i].id = a /\ s[j].id = b

----------------------------------------------------------------------------
(* C1. Snapshot consistency: a new subscriber sees a message published     *)
(* concurrently with its subscribe() exactly once, in the snapshot or as a *)
(* live delivery of its Subscription, never both and never neither.        *)
(* Stated for every message History retains once its publish is complete   *)
(* and every viewer whose subscribe() has returned; for a publish that     *)
(* does not overlap the subscribe() this holds by the order of the steps,  *)
(* so a violation is a publish that overlaps it.                           *)
C1_SnapshotConsistency ==
    \A v \in Viewers :
        Subscribed(v) =>
            \A i \in 1..Len(message_buf) :
                InSnapshot(v, message_buf[i]) # InStream(v, message_buf[i])

(* C2. Single global sequence: no two viewers observe two messages in      *)
(* opposite orders, where a viewer observes its snapshot and then its live *)
(* deliveries.                                                             *)
C2_SingleGlobalSequence ==
    \A v, w \in Viewers :
        \A a, b \in 1..(nextId - 1) :
            ~(Before(wsOut[v], a, b) /\ Before(wsOut[w], b, a))

(* C3. History bound: message_buf never holds more than the capacity, and  *)
(* every change of message_buf is one publish appending its message at the *)
(* back, after removing exactly the oldest entry when the buffer is full.  *)
C3_HistoryBound ==
    /\ [](Len(message_buf) <= cap)
    /\ [][message_buf' # message_buf =>
            \E m \in InFlight :
                message_buf' = IF Len(message_buf) = cap
                                  THEN Append(Tail(message_buf), m)
                                  ELSE Append(message_buf, m)]_vars

\* the buffer is full and a message that was in it (a viewer's snapshot
\* holds it) has been evicted
C3_Witness ==
    /\ Len(message_buf) = cap
    /\ \E v \in Viewers : \E i \in 1..Len(snapshot[v]) :
           snapshot[v][i].id \notin Ids(message_buf)

(* C4. History contents: after k > MAX_MESSAGES sequential publishes the   *)
(* buffer is exactly messages #(k-MAX_MESSAGES+1)..#k, oldest first, each  *)
(* the trimmed line, and a viewer that subscribes then gets exactly these  *)
(* as its snapshot and is sent exactly these, in this order.               *)
C4_HistoryContents ==
    LET k == nextId - 1
        lastK == [i \in 1..cap |-> [id |-> k - cap + i, text |-> Trim(SeqLine)]]
    IN  (readerPc = "read" /\ k > cap) =>
            /\ cap = MAX_MESSAGES
            /\ message_buf = lastK
            /\ \A v \in Viewers :
                   /\ Subscribed(v) => snapshot[v] = lastK
                   /\ wsOut[v] = SubSeq(lastK, 1, replayed[v])
                   /\ hc[v] = "select" => wsOut[v] = lastK

\* 300 lines were published and the viewer has been sent #45..#300
C4_Witness ==
    /\ nextId - 1 = 300
    /\ hc[SeqViewer] = "select"
    /\ Len(wsOut[SeqViewer]) = 256
    /\ wsOut[SeqViewer][1].id = 45
    /\ wsOut[SeqViewer][256].id = 300

----------------------------------------------------------------------------
(* C5. Input loopback.                                                     *)

\* the outbound loop of w waits in recv with nothing left to read
CaughtUp(w) == st[w] = "recv" /\ rxNext[w] = Len(sent)

\* the outbound loop of w will deliver nothing more: it has ended, or waits
\* with nothing left to read
OutboundSettled(w) == TaskEnded(st[w]) \/ CaughtUp(w)

\* the writer task will write nothing more: it has ended, or its queue is empty
WriterSettled == writerPc # "recv" \/ stdinQ = <<>>

\* the stream holds m's text immediately followed by a newline, from m's write
WrittenLines(m) ==
    { i \in 1..(Len(stdinStream) - 1) :
        /\ stdinStream[i] = [id |-> m.id, bytes |-> m.text]
        /\ stdinStream[i + 1] = [id |-> m.id, bytes |-> <<NL>>] }

\* chunks of the stream that come from m's write
WrittenChunks(m) == { i \in 1..Len(stdinStream) : stdinStream[i].id = m.id }

----------------------------------------------------------------------------
(* C6. Fail-fast isolation.                                                *)

\* more than the capacity was sent since v's Receiver last read
Overflowed(v) == Len(sent) - rxNext[v] > cap

(* C6. A subscriber that has fallen behind by more than the capacity fails *)
(* at its next read: its loop ends, its Receiver is dropped and it is sent *)
(* nothing further; that step changes nothing of any other subscriber.  An *)
(* outbound loop ends only by its own overflow or its own connection's     *)
(* failure, and a Receiver is dropped only by its own bridge.  What every  *)
(* subscriber has been sent live is the channel's sequence from the point  *)
(* it subscribed, in order and with none missing.                          *)
C6_FailFastIsolation ==
    /\ [](\A w \in Viewers :
            /\ Len(Live(w)) <= Len(sent) - subPos[w]
            /\ \A i \in 1..Len(Live(w)) : Live(w)[i] = sent[subPos[w] + i])
    /\ [][\A v \in Viewers :
            /\ (st[v] = "recv" /\ Overflowed(v) /\ st'[v] # "recv") =>
                   /\ st'[v] = "lagged"
                   /\ v \notin rxLive'
                   /\ wsOut'[v] = wsOut[v]
                   /\ \A w \in Viewers \ {v} :
                          /\ st'[w] = st[w]
                          /\ rxNext'[w] = rxNext[w]
                          /\ wsOut'[w] = wsOut[w]
                          /\ (w \in rxLive) = (w \in rxLive')
            /\ st[v] = "lagged" => (st'[v] = "lagged" /\ wsOut'[v] = wsOut[v])
            /\ (st[v] \in {"recv", "send"} /\ TaskEnded(st'[v])) =>
                   (Overflowed(v) \/ ~connOpen[v])
            /\ (v \in rxLive /\ v \notin rxLive') =>
                   (TaskEnded(st'[v]) \/ (st[v] = "none" /\ hc'[v] = "returned"))
         ]_vars

\* with the small capacity, v overflowed and its loop ended; an input published
\* after that (only w was live) reached w, which has been sent all three
\* messages of the channel
C6_Witness ==
    \E v, w \in Viewers :
        /\ v # w
        /\ cap = SmallCap
        /\ st[v] = "lagged"
        /\ Len(sent) = 3
        /\ subPos[w] = 0
        /\ Len(Live(w)) = 3
        /\ \E i \in 1..Len(inputs) :
               inputs[i].live = {w} /\ inputs[i].msg = sent[3]

----------------------------------------------------------------------------
(* C7. Fan-out ordering and at-most-once delivery: no two subscribers are  *)
(* sent two messages live in opposite orders, and no subscriber is sent    *)
(* the same published message live more than once.                         *)
C7_FanOutOrder ==
    /\ \A v, w \in Viewers :
           LET lv == Live(v)
               lw == Live(w)
           IN  \A i, j \in 1..Len(lv) : \A k, l \in 1..Len(lw) :
                   (i < j /\ k < l) =>
                       ~(lv[i].id = lw[l].id /\ lv[j].id = lw[k].id)
    /\ \A v \in Viewers :
           LET lv == Live(v)
           IN  \A i, j \in 1..Len(lv) : i # j => lv[i].id # lv[j].id

\* both viewers have been sent the same two messages live
C7_Witness ==
    /\ \A v \in Viewers : Len(Live(v)) >= 2
    /\ \E a, b \in 1..(nextId - 1) :
           a # b /\ \A v \in Viewers : Before(Live(v), a, b)

----------------------------------------------------------------------------
(* C8. Initial-attach ordering: what a viewer is sent starts with the      *)
(* snapshot, one transport message each, oldest first; no live message is  *)
(* sent and no relay task exists before the whole snapshot has been sent;  *)
(* if a snapshot send fails the bridge returns without a relay task and    *)
(* without a live message.                                                 *)
C8_InitialAttach ==
    \A v \in Viewers :
        /\ replayed[v] <= Len(snapshot[v])
        /\ replayed[v] <= Len(wsOut[v])
        /\ SubSeq(wsOut[v], 1, replayed[v]) = SubSeq(snapshot[v], 1, replayed[v])
        /\ Len(wsOut[v]) > replayed[v] => replayed[v] = Len(snapshot[v])
        /\ (st[v] # "none" \/ rt[v] # "none") => replayed[v] = Len(snapshot[v])
        /\ (hc[v] = "returned" /\ replayed[v] < Len(snapshot[v])) =>
               /\ st[v] = "none"
               /\ rt[v] = "none"
               /\ Len(wsOut[v]) = replayed[v]
               /\ v \notin rxLive

\* one viewer was sent its two-message snapshot and then a live message,
\* the other's snapshot send failed and its bridge returned
C8_Witness ==
    \E v, w \in Viewers :
        /\ Len(snapshot[v]) = 2
        /\ Len(wsOut[v]) = 3
        /\ hc[w] = "returned"
        /\ replayed[w] < Len(snapshot[w])

----------------------------------------------------------------------------
(* C9. First-to-finish termination: once handle_connection has returned,   *)
(* neither relay loop of that connection takes a further step.             *)
C9_FirstToFinish ==
    [][\A v \in Viewers :
          hc[v] = "returned" =>
              /\ st'[v] = st[v]
              /\ rt'[v] = rt[v]
              /\ wsOut'[v] = wsOut[v]]_vars

----------------------------------------------------------------------------
\* a relay task has ended on a failure
TaskFailed(p) == p \in {"lagged", "send_failed", "bcast_failed", "stdin_failed"}

(* C10. Subscription release on disconnect: once a viewer's connection is  *)
(* closed or one of its relays has failed, its Receiver is released        *)
(* without any further publish.  Read at the states where the viewer's     *)
(* bridge can take no step of its own: there the Receiver must be gone.    *)
C10_SubscriptionReleased ==
    \A v \in Viewers :
        ( /\ Subscribed(v)
          /\ ~connOpen[v] \/ TaskFailed(st[v]) \/ TaskFailed(rt[v])
          /\ ~ENABLED ViewerStep(v) )
        => v \notin rxLive

----------------------------------------------------------------------------
(* C11. Input after process failure: once the stdin writer task has        *)
(* stopped on a failed write, a relay that has published an input and      *)
(* hands it to the process succeeds locally: the input is appended to      *)
(* the history and the relay goes on to read the viewer's next input, so   *)
(* the viewer's bridge is not ended by the process's failure.              *)
C11_InputAfterProcessFailure ==
    [][\A v \in Viewers :
          (writerPc = "failed" /\ rt[v] = "store" /\ rt'[v] # "store") =>
              /\ message_buf' = PushHistory(message_buf, rtMsg[v], cap)
              /\ rt'[v] = "next"]_vars

----------------------------------------------------------------------------
(* C12. Viewer failure containment: a step in which a viewer disconnects,  *)
(* a send to it fails, its Subscription overflows, or its bridge ends on   *)
(* one of these, changes nothing but that viewer's own bridge: the         *)
(* history, the channel, every other viewer's Receiver, cursor, pending    *)
(* message, tasks and connection, the stdin queue and stream, and the      *)
(* stdout reader and stdin writer tasks are as before.                     *)
C12_ViewerFailureContained ==
    [][\A v \in Viewers :
          LET fails ==
                \/ connOpen[v] /\ ~connOpen'[v]
                \/ st[v] \in {"recv", "send"} /\ st'[v] \in {"lagged", "send_failed"}
                \/ rt[v] = "next" /\ rt'[v] = "ended"
                \/ hc[v] \in {"replay", "select"} /\ hc'[v] = "returned"
          IN  fails =>
                /\ message_buf' = message_buf
                /\ sent' = sent
                /\ stdinQ' = stdinQ
                /\ stdinStream' = stdinStream
                /\ writerPc' = writerPc
                /\ readerPc' = readerPc
                /\ readerMsg' = readerMsg
                /\ \A w \in Viewers \ {v} :
                       /\ (w \in rxLive') = (w \in rxLive)
                       /\ rxNext'[w] = rxNext[w]
                       /\ subPos'[w] = subPos[w]
                       /\ stMsg'[w] = stMsg[w]
                       /\ rtMsg'[w] = rtMsg[w]
                       /\ st'[w] = st[w]
                       /\ rt'[w] = rt[w]
                       /\ hc'[w] = hc[w]
                       /\ connOpen'[w] = connOpen[w]
                       /\ wsOut'[w] = wsOut[w]]_vars

\* a send to v failed after a message was published, its bridge has returned,
\* and w, still attached, has been sent that message live
C12_Witness ==
    \E v, w \in Viewers :
        /\ v # w
        /\ st[v] = "send_failed"
        /\ hc[v] = "returned"
        /\ w \in rxLive
        /\ hc[w] = "select"
        /\ st[w] = "recv"
        /\ Len(sent) >= 1
        /\ Len(Live(w)) = Len(sent) - subPos[w]
        /\ Len(Live(w)) >= 1

----------------------------------------------------------------------------
(* C13. History without viewers: every line the process prints is appended *)
(* to the history whether or not a viewer is subscribed (while only output *)
(* has been published and it fits the capacity, the history is exactly the *)
(* trimmed lines in order); a viewer whose subscribe() runs while no        *)
(* publish is in progress gets the history as it is then as its snapshot;  *)
(* and until something is sent on the channel after it subscribed, a       *)
(* viewer has been sent a prefix of its snapshot and nothing else.         *)
C13_HistoryWithoutViewers ==
    /\ []((InFlight = {} /\ inputs = <<>> /\ nextId - 1 <= cap) =>
            /\ Len(message_buf) = nextId - 1
            /\ \A i \in 1..Len(message_buf) :
                   \E line \in Lines :
                       message_buf[i] = [id |-> i, text |-> Trim(line)])
    /\ [](\A v \in Viewers :
            (Subscribed(v) /\ Len(sent) = subPos[v]) =>
                wsOut[v] = SubSeq(snapshot[v], 1, replayed[v]))
    /\ [][\A v \in Viewers :
            (hc[v] = "subscribe" /\ hc'[v] = "replay" /\ InFlight = {}) =>
                /\ snapshot'[v] = message_buf
                /\ subPos'[v] = Len(sent)]_vars

\* a line was published while no viewer was subscribed (the channel carried
\* nothing); both viewers attached afterwards and each has been sent exactly
\* that line, as history
C13_Witness ==
    /\ sent = <<>>
    /\ nextId = 2
    /\ message_buf = << [id |-> 1, text |-> <<"o", "k">>] >>
    /\ \A v \in Viewers :
           /\ hc[v] = "select"
           /\ wsOut[v] = message_buf
           /\ replayed[v] = 1

----------------------------------------------------------------------------
----------------------------------------------------------------------------
(* C15. Publish step order: a publish appends its message to the history   *)
(* before it attempts delivery, so a message a live subscriber can receive *)
(* (the next one its Receiver would return) has already been appended: it  *)
(* is not one whose publish is still before its append.                    *)
C15_PublishStepOrder ==
    \A v \in rxLive :
        RecvReady(v) => RecvValue(v) \notin InFlight

----------------------------------------------------------------------------
(* C16. Process input order: the stream changes only by the writer task    *)
(* writing the line at the front of the queue, its text and then one       *)
(* newline, and removing it from the queue, or by a failed write that      *)
(* leaves a prefix of that line and stops the task; the queue changes only *)
(* by an enqueue at the back, by that removal at the front, or by being    *)
(* discarded when the task stops; once stopped the task writes nothing;    *)
(* and no line is written or queued twice.                                 *)
C16_ProcessInputOrder ==
    /\ [][stdinStream' # stdinStream =>
            /\ writerPc = "recv"
            /\ stdinQ # <<>>
            /\ LET m == stdinQ[1]
                   line == << [id |-> m.id, bytes |-> m.text],
                              [id |-> m.id, bytes |-> <<NL>>] >>
               IN  \/ /\ stdinStream' = stdinStream \o line
                      /\ stdinQ' = Tail(stdinQ)
                      /\ writerPc' = "recv"
                   \/ /\ writerPc' = "failed"
                      /\ \E d \in 1..2 :
                             stdinStream' = stdinStream \o SubSeq(line, 1, d)]_vars
    /\ [][stdinQ' # stdinQ =>
            \/ \E v \in Viewers :
                   /\ rt[v] = "store"
                   /\ stdinQ' = Append(stdinQ, rtMsg[v])
                   /\ stdinStream' = stdinStream
            \/ /\ stdinQ' = Tail(stdinQ)
               /\ stdinStream' # stdinStream
            \/ /\ writerPc' = "failed"
               /\ stdinQ' = <<>>]_vars
    /\ [][writerPc = "failed" =>
            /\ writerPc' = "failed"
            /\ stdinStream' = stdinStream
            /\ stdinQ' = stdinQ]_vars
    /\ [](\A n \in 1..(nextId - 1) :
            /\ CountId(stdinQ, n) <= 1
            /\ CountId(stdinQ, n) = 1 => CountId(stdinStream, n) = 0
            /\ CountId(stdinStream, n) <= 2)

\* the lines of two different inputs have been written one after the other,
\* each as its text and a newline, and the writer task is still running
C16_Witness ==
    /\ writerPc = "recv"
    /\ stdinQ = <<>>
    /\ Len(stdinStream) = 4
    /\ stdinStream[1].id # stdinStream[3].id
    /\ stdinStream[2].bytes = <<NL>>
    /\ stdinStream[4].bytes = <<NL>>

----------------------------------------------------------------------------
(* C18. Output framing: the message the reader task publishes for a line   *)
(* is the line's text with the line terminator and trailing whitespace     *)
(* removed, and nothing else removed; once the reader task has ended it    *)
(* holds no message to publish.                                            *)
C18_OutputFraming ==
    /\ readerMsg # NoMsg =>
           \E line \in Lines : readerMsg.text = TrimEnd(line)
    /\ readerPc = "done" => readerMsg = NoMsg

----------------------------------------------------------------------------
(* C19. Failed input publish leaves state unchanged: a relay that reads an *)
(* input while no Receiver exists ends on the broadcast error, and only    *)
(* then; that step leaves the history, the channel, the stdin queue and    *)
(* the stream as they were; the relay reads nothing afterwards; and such   *)
(* an input is never in the history, in flight, queued or written.         *)
C19_FailedInputPublish ==
    /\ [][\A v \in Viewers :
            /\ (rt[v] = "next" /\ inputs' # inputs /\ rt'[v] # "next" /\ rxLive = {}) =>
                   /\ rt'[v] = "bcast_failed"
                   /\ message_buf' = message_buf
                   /\ sent' = sent
                   /\ stdinQ' = stdinQ
                   /\ stdinStream' = stdinStream
            /\ (rt[v] # "bcast_failed" /\ rt'[v] = "bcast_failed") =>
                   (rt[v] = "next" /\ rxLive = {})
            /\ rt[v] = "bcast_failed" => rt'[v] = "bcast_failed"]_vars
    /\ [](\A i \in 1..Len(inputs) :
            inputs[i].live = {} =>
                /\ inputs[i].msg \notin Range(message_buf)
                /\ inputs[i].msg \notin Range(sent)
                /\ inputs[i].msg \notin InFlight
                /\ CountId(stdinQ, inputs[i].msg.id) = 0
                /\ CountId(stdinStream, inputs[i].msg.id) = 0)

\* a relay ended on the broadcast error with a history that holds earlier
\* messages, none of them the input it read
C19_Witness ==
    \E v \in Viewers :
        /\ rt[v] = "bcast_failed"
        /\ message_buf # <<>>
        /\ inputs[Len(inputs)].live = {}
        /\ inputs[Len(inputs)].msg.id \notin Ids(message_buf)

----------------------------------------------------------------------------
(* C20. Input precedes its effect: an input is on the channel and in the   *)
(* history before it is enqueued for the process.  So when the reader      *)
(* task publishes a line, every input the process can have read (any part  *)
(* of it is on the stream) is already on the channel and already           *)
(* appended: the line goes to the end of the channel, behind them, and is  *)
(* appended at the back of the history, behind those the history still     *)
(* holds; and every subscriber is sent the channel's values in the         *)
(* channel's order.                                                        *)
C20_InputPrecedesEffect ==
    /\ [](\A n \in Ids(stdinQ) \cup Ids(stdinStream) :
            /\ n \in Ids(sent)
            /\ \A m \in InFlight : m.id # n)
    /\ [][(readerPc = "read" /\ readerPc' = "store") =>
            /\ sent' # sent => sent' = Append(sent, readerMsg')
            /\ \A n \in Ids(stdinStream) :
                   /\ n \in Ids(sent)
                   /\ n # readerMsg'.id]_vars
    /\ [][(readerPc = "store" /\ readerPc' = "read") =>
            /\ message_buf'[Len(message_buf')] = readerMsg
            /\ \A i \in 1..(Len(message_buf') - 1) :
                   message_buf'[i] \in Range(message_buf)
            /\ \A n \in Ids(stdinStream) : n # readerMsg.id]_vars
    /\ [](\A w \in Viewers : \A i, j \in 1..Len(Live(w)) :
            i < j => \E k, l \in 1..Len(sent) :
                         k < l /\ sent[k] = Live(w)[i] /\ sent[l] = Live(w)[j])

\* an input was written to the process and a line printed afterwards was
\* published: the input is before the line on the channel, in the history
\* and in what a viewer has been sent live
C20_Witness ==
    \E i \in 1..Len(inputs) :
        LET n == inputs[i].msg.id IN
        /\ Cardinality(WrittenLines(inputs[i].msg)) = 1
        /\ \E o \in Ids(message_buf) :
               /\ o > n
               /\ \A j \in 1..Len(inputs) : inputs[j].msg.id # o
               /\ Before(message_buf, n, o)
               /\ Before(sent, n, o)
               /\ \E w \in Viewers : Before(Live(w), n, o)

----------------------------------------------------------------------------
(* The server with the grant of each guard of message_buf as a step of its *)
(* own: a task that awaits read() or write() is granted the guard in one   *)
(* step and runs the guarded section, up to the drop of the guard and on   *)
(* to its next await, in the next.                                         *)

\* Publishes in the specification with the guards.
LockPublish == 2

\* the guard a task holds: subscribe (for a viewer's handle_connection),
\* broadcast_input (for a viewer's recv_task) or the stdout reader task
Guard(t, v, k) == [task |-> t, viewer |-> v, kind |-> k]

\* RwLock::read is granted while no write guard is out
CanRead(g) == \A x \in g : x.kind # "write"

\* RwLock::write is granted while no guard is out
CanWrite(g) == g = {}

\* a task holds a guard
HoldsGuard(t, v) == \E x \in guard : x.task = t /\ x.viewer = v

\* Release keeping the guard: it outlives the function that took it
ReleaseNever(g, t, v) == g

\* the guard goes out of scope: at the end of subscribe, at the end of
\* broadcast_input, at the end of the reader's Ok(_) arm
Release(g, t, v) == { x \in g : ~(x.task = t /\ x.viewer = v) }

\* subscribe: let buf = self.message_buf.read().await is granted
SubscribeRead(v) ==
    /\ hc[v] = "subscribe"
    /\ CanRead(guard)
    /\ guard' = guard \cup {Guard("subscribe", v, "read")}
    /\ hc' = [hc EXCEPT ![v] = "subscribe_locked"]
    /\ UNCHANGED <<cap, hubVars, connOpen, snapshot, replayed, wsOut,
                   sendTaskVars, recvTaskVars, readerVars, nextId, inputs, faults,
                   writerVars>>

\* subscribe: (self.message_tx.subscribe(), buf.clone().into()); the function
\* returns and buf is dropped
SubscribeLocked(v) ==
    /\ hc[v] = "subscribe_locked"
    /\ rxLive' = rxLive \cup {v}
    /\ rxNext' = [rxNext EXCEPT ![v] = Len(sent)]
    /\ subPos' = [subPos EXCEPT ![v] = Len(sent)]
    /\ snapshot' = [snapshot EXCEPT ![v] = SnapshotOf(message_buf)]
    /\ guard' = Release(guard, "subscribe", v)
    /\ hc' = [hc EXCEPT ![v] = "replay"]
    /\ UNCHANGED <<cap, message_buf, sent, connOpen, replayed, wsOut,
                   sendTaskVars, recvTaskVars, readerVars, nextId, inputs, faults,
                   writerVars>>

\* broadcast_input: let mut message_buf = self.message_buf.write().await is
\* granted
BroadcastInputWrite(v) ==
    /\ rt[v] = "store"
    /\ CanWrite(guard)
    /\ guard' = guard \cup {Guard("broadcast_input", v, "write")}
    /\ rt' = [rt EXCEPT ![v] = "store_locked"]
    /\ UNCHANGED <<cap, hubVars, connVars, sendTaskVars, rtMsg, readerVars,
                   nextId, inputs, faults, writerVars>>

\* broadcast_input: evict, push_back(input), Ok(()) drops the guard; back in
\* recv_task, stdin_tx.send(input.to_string())
BroadcastInputLocked(v) ==
    /\ rt[v] = "store_locked"
    /\ message_buf' = PushHistory(message_buf, rtMsg[v], cap)
    /\ guard' = Release(guard, "broadcast_input", v)
    /\ \/ /\ writerPc = "recv"
          /\ stdinQ' = Append(stdinQ, rtMsg[v])
          /\ rt' = [rt EXCEPT ![v] = "next"]
       \/ /\ writerPc # "recv"
          /\ rt' = [rt EXCEPT ![v] = "stdin_failed"]
          /\ UNCHANGED stdinQ
    /\ rtMsg' = [rtMsg EXCEPT ![v] = NoMsg]
    /\ UNCHANGED <<cap, sent, rxLive, rxNext, subPos, connVars, sendTaskVars,
                   readerVars, nextId, inputs, faults, writerPc, stdinStream>>

\* the stdout reader: let mut message_buf = message_buf_clone2.write().await
\* is granted
ReaderWrite ==
    /\ readerPc = "store"
    /\ CanWrite(guard)
    /\ guard' = guard \cup {Guard("reader", "none", "write")}
    /\ readerPc' = "store_locked"
    /\ UNCHANGED <<cap, hubVars, connVars, sendTaskVars, recvTaskVars,
                   readerMsg, nextId, inputs, faults, writerVars>>

\* the stdout reader: evict, push_back(trimmed); the guard is dropped at the
\* end of the arm, before the next read_line
ReaderLocked ==
    /\ readerPc = "store_locked"
    /\ message_buf' = PushHistory(message_buf, readerMsg, cap)
    /\ guard' = Release(guard, "reader", "none")
    /\ readerPc' = "read"
    /\ readerMsg' = NoMsg
    /\ UNCHANGED <<cap, sent, rxLive, rxNext, subPos, connVars, sendTaskVars,
                   recvTaskVars, nextId, inputs, faults, writerVars>>

LockNext ==
    \/ \E v \in Viewers : Connect(v)
    \/ \E v \in Viewers : SubscribeRead(v)
    \/ \E v \in Viewers : SubscribeLocked(v)
    \/ \E v \in Viewers : ReplaySend(v)
    \/ \E v \in Viewers : SpawnTasks(v)
    \/ \E v \in Viewers : SelectReturn(v)
    \/ \E v \in Viewers : ClientClose(v)
    \/ \E v \in Viewers : SendTaskRecv(v)
    \/ \E v \in Viewers : SendTaskSend(v)
    \/ \E v \in Viewers, t \in Inputs : RecvTaskNext(v, t, LockPublish)
    \/ \E v \in Viewers : RecvTaskEnd(v)
    \/ \E v \in Viewers : BroadcastInputWrite(v)
    \/ \E v \in Viewers : BroadcastInputLocked(v)
    \/ \E line \in Lines : ReaderRead(line, LockPublish)
    \/ ReaderEnd
    \/ ReaderWrite
    \/ ReaderLocked
    \/ WriterWrite
    \/ \E done \in 0..2 : WriterFail(done)

SpecLock == Init /\ [][LockNext]_vars

----------------------------------------------------------------------------
(* C17. Hub lock scope: a task that holds a guard of message_buf is inside *)
(* the section that snapshots or appends, and nowhere else: not sending a  *)
(* snapshot or a live message, not relaying, not reading the process; a    *)
(* write guard excludes every other guard; the holder's next step never    *)
(* waits for anything; and a step that sends to a viewer or writes to the  *)
(* process is taken by a task that holds no guard (handle_connection, the  *)
(* only sender that ever takes one, holds none then) and moves no guard,   *)
(* while a relay that enqueues for the process has dropped its guard.      *)
C17_HubLockScope ==
    /\ [](\A x \in guard :
            /\ x.task = "subscribe" => hc[x.viewer] = "subscribe_locked"
            /\ x.task = "broadcast_input" => rt[x.viewer] = "store_locked"
            /\ x.task = "reader" => readerPc = "store_locked"
            /\ x.kind = "write" => guard = {x})
    /\ [](\A v \in Viewers :
            /\ HoldsGuard("subscribe", v) => ENABLED SubscribeLocked(v)
            /\ HoldsGuard("broadcast_input", v) => ENABLED BroadcastInputLocked(v))
    /\ [](HoldsGuard("reader", "none") => ENABLED ReaderLocked)
    /\ [][\A v \in Viewers :
            /\ wsOut'[v] # wsOut[v] =>
                   /\ guard' = guard
                   /\ ~HoldsGuard("subscribe", v)
            /\ Len(stdinQ') > Len(stdinQ) =>
                   \A x \in guard' : x.task # "broadcast_input"
            /\ stdinStream' # stdinStream => guard' = guard]_vars

\* the stdout reader holds the write guard while an outbound loop is about
\* to send a message to its viewer, and a snapshot is being sent to the other
C17_Witness ==
    /\ guard = {Guard("reader", "none", "write")}
    /\ \E v, w \in Viewers :
           /\ v # w
           /\ st[v] = "send"
           /\ connOpen[v]
           /\ hc[w] = "replay"
           /\ replayed[w] < Len(snapshot[w])

====
